---- MODULE Spec2Model ----
(***************************************************************************)
(* A model of backend/open_webui/utils/team_handling.py: the turn selector *)
(* of create_team, the termination condition it composes, the appending    *)
(* code executor (AppendingDockerCodeExecutor) and run_task.               *)
(*                                                                         *)
(* A Python str is a sequence of chunks (TLA+ strings); the newline is the *)
(* chunk "\n"; str concatenation is \o and `in` is contiguous containment. *)
(***************************************************************************)
EXTENDS Integers, Sequences, FiniteSets, TLC

VARIABLES
    pc,             \* position of run_task
    task,           \* the seed messages handed to run_task
    history,        \* the group chat's message thread
    speaker,        \* the name selector_func returned last
    message_count,  \* MaxMessageTermination's count of messages seen
    stop_reason,    \* which conditions fired: subset of {"text", "max"}
    error,          \* the exception propagating out of the run, or "none"
    running,        \* the container is started (self._running)
    dir_exists,     \* work_dir exists on the host
    fs,             \* files of work_dir: relative path -> content
    rstate,         \* position of _execute_code_dont_check_setup
    code_blocks,    \* its argument
    outputs,        \* its local list of outputs
    files,          \* its local list of written paths
    last_exit_code, \* its local exit code
    i,              \* how many code blocks its loop has taken
    modes,          \* the open() mode used for each entry of files
    cmds,           \* what exec_run ran during the call, with what the container answered
    result,         \* the CommandLineCodeResult returned, or NoResult
    cancelled,      \* the code block whose command ran when the caller cancelled
                    \* the cancellation_token of the call, 0 while it is not cancelled
    reported        \* the stop reason run_task printed, {} while it printed none

vars == <<pc, task, history, speaker, message_count, stop_reason, error, running,
          dir_exists, fs, rstate, code_blocks, outputs, files, last_exit_code, i,
          modes, cmds, result, cancelled, reported>>

driverVars == <<pc, task, history, speaker, message_count, stop_reason, error, cancelled,
               reported>>
runnerVars == <<rstate, code_blocks, outputs, files, last_exit_code, i, modes, cmds, result>>

-----------------------------------------------------------------------------
(* Bounds of the model *)

\* longest seed history handed to run_task
MaxSeed == 6
\* longest conversation the selector is applied to on its own
MaxConv == 2
\* most code blocks in one direct call of the executor
MaxBlocks == 3

-----------------------------------------------------------------------------
(* Strings *)

NL == "\n"

\* Python's `phrase in content`
Contains(phrase, content) ==
    \E k \in 0..(Len(content) - Len(phrase)) :
        SubSeq(content, k + 1, k + Len(phrase)) = phrase

IsPrefix(p, s) == Len(p) <= Len(s) /\ SubSeq(s, 1, Len(p)) = p

RECURSIVE Join(_)
\* "".join(list)
Join(list) == IF list = <<>> THEN <<>> ELSE Head(list) \o Join(Tail(list))

Last(s) == s[Len(s)]

-----------------------------------------------------------------------------
(* create_team: participants, termination conditions, selector *)

writer_agent == "writer_agent"
safeguard_agent == "safeguard_agent"
executor_agent == "code_executor"
participants == {writer_agent, safeguard_agent, executor_agent}

SAFETY_VERIFIED == <<"SAFETY", " ", "VERIFIED">>
COMPLETE == <<"COMPLETE">>
max_messages == 5

\* a plausible slip: the writer branch falls through to the default
selector_func_repeat(conversation) ==
    IF conversation = <<>> THEN writer_agent
    ELSE LET last_message == Last(conversation) IN
         IF last_message.source = safeguard_agent
         THEN IF Contains(SAFETY_VERIFIED, last_message.content)
              THEN executor_agent ELSE writer_agent
         ELSE writer_agent

\* a plausible slip: the marker is looked for in the whole conversation
selector_func_any(conversation) ==
    IF conversation = <<>> THEN writer_agent
    ELSE LET last_message == Last(conversation) IN
         IF last_message.source = writer_agent THEN safeguard_agent
         ELSE IF last_message.source = safeguard_agent
         THEN IF \E k \in 1..Len(conversation) :
                     Contains(SAFETY_VERIFIED, conversation[k].content)
              THEN executor_agent ELSE writer_agent
         ELSE writer_agent

\* a plausible slip: the safeguard's verdict is not read
selector_func_trusting(conversation) ==
    IF conversation = <<>> THEN writer_agent
    ELSE LET last_message == Last(conversation) IN
         IF last_message.source = writer_agent THEN safeguard_agent
         ELSE IF last_message.source = safeguard_agent THEN executor_agent
         ELSE writer_agent

\* a plausible slip: no default return, so None for a source that is no participant
selector_func_none(conversation) ==
    IF conversation = <<>> THEN writer_agent
    ELSE LET last_message == Last(conversation) IN
         IF last_message.source = writer_agent THEN safeguard_agent
         ELSE IF last_message.source = safeguard_agent
         THEN IF Contains(SAFETY_VERIFIED, last_message.content)
              THEN executor_agent ELSE writer_agent
         ELSE IF last_message.source = executor_agent THEN writer_agent
         ELSE "none"

selector_func(conversation) ==
    IF conversation = <<>> THEN writer_agent
    ELSE LET last_message == Last(conversation) IN
         IF last_message.source = writer_agent THEN safeguard_agent
         ELSE IF last_message.source = safeguard_agent
         THEN IF Contains(SAFETY_VERIFIED, last_message.content)
              THEN executor_agent ELSE writer_agent
         ELSE IF last_message.source = executor_agent THEN writer_agent
         ELSE writer_agent

-----------------------------------------------------------------------------
(* Helpers of autogen_ext.code_executors._common, as the executor uses them *)

RECURSIVE SplitOn(_, _)
\* str.split(sep): the pieces between the sep chunks
SplitOn(s, sep) ==
    IF \A j \in 1..Len(s) : s[j] # sep THEN <<s>>
    ELSE LET j == CHOOSE n \in 1..Len(s) :
                      s[n] = sep /\ \A m \in 1..(n - 1) : s[m] # sep
         IN <<SubSeq(s, 1, j - 1)>> \o SplitOn(SubSeq(s, j + 1, Len(s)), sep)

RECURSIVE JoinWith(_, _)
\* sep.join(list)
JoinWith(list, sep) ==
    IF list = <<>> THEN <<>>
    ELSE IF Len(list) = 1 THEN list[1]
    ELSE list[1] \o <<sep>> \o JoinWith(Tail(list), sep)

RECURSIVE Replace(_, _, _)
\* str.replace(old, new)
Replace(s, old, new) ==
    IF Len(s) < Len(old) \/ old = <<>> THEN s
    ELSE IF IsPrefix(old, s)
         THEN new \o Replace(SubSeq(s, Len(old) + 1, Len(s)), old, new)
         ELSE <<Head(s)>> \o Replace(Tail(s), old, new)

RECURSIVE Strip(_)
\* str.strip()
Strip(s) ==
    IF s = <<>> THEN s
    ELSE IF Head(s) = " " THEN Strip(Tail(s))
    ELSE IF Last(s) = " " THEN Strip(SubSeq(s, 1, Len(s) - 1))
    ELSE s

\* str.lower() on the language tags of the model
lower(lang) == IF lang = "Python" THEN "python" ELSE lang

\* what the regex of silence_pip matches at the start of a line, or <<>>
PipMatch(line, lang) ==
    IF lang = "python"
    THEN IF IsPrefix(<<"!", " ", "pip install">>, line) THEN <<"!", " ", "pip install">>
         ELSE IF IsPrefix(<<"!", "pip install">>, line) THEN <<"!", "pip install">>
         ELSE <<>>
    ELSE IF lang \in {"bash", "shell", "sh", "pwsh", "powershell", "ps1"}
    THEN IF IsPrefix(<<"pip install">>, line) THEN <<"pip install">> ELSE <<>>
    ELSE <<>>

SilenceLine(line, lang) ==
    LET m == PipMatch(line, lang) IN
    IF m # <<>> /\ ~Contains(<<"-qqq">>, line)
    THEN Replace(line, m, m \o <<" ", "-qqq">>)
    ELSE line

\* silence_pip: add -qqq to the pip install lines
silence_pip(code, lang) ==
    LET lines == SplitOn(code, NL) IN
    JoinWith([j \in 1..Len(lines) |-> SilenceLine(lines[j], lang)], NL)

\* the work_dir given to the executor, as path components
work_dir == <<"data">>

RECURSIVE Walk(_, _)
\* Path.resolve(): "." and ".." folded into the components before them
Walk(stack, comps) ==
    IF comps = <<>> THEN stack
    ELSE LET c == Head(comps) IN
         Walk(IF c = <<".">> \/ c = <<>> THEN stack
              ELSE IF c = <<"..">>
                   THEN (IF stack = <<>> THEN stack ELSE SubSeq(stack, 1, Len(stack) - 1))
                   ELSE Append(stack, c),
              Tail(comps))

\* get_file_name_from_content: [ok |-> FALSE] is its ValueError, name <<>> its None
get_file_name_from_content(code, workspace_path) ==
    LET first_line == SplitOn(code, NL)[1] IN
    IF IsPrefix(<<"# filename:">>, first_line)
    THEN LET filename == Strip(Tail(first_line))
             absolute == filename # <<>> /\ Head(filename) = "/"
             comps    == SplitOn(filename, "/")
             base     == IF absolute THEN <<>>
                         ELSE [j \in 1..Len(workspace_path) |-> <<workspace_path[j]>>]
             path     == Walk(base, comps)
             root     == [j \in 1..Len(workspace_path) |-> <<workspace_path[j]>>]
         IN IF IsPrefix(root, path)
            THEN LET relative == SubSeq(path, Len(root) + 1, Len(path)) IN
                 [ok |-> TRUE,
                  name |-> IF relative = <<>> THEN <<".">> ELSE JoinWith(relative, "/")]
            ELSE [ok |-> FALSE, name |-> <<>>]
    ELSE [ok |-> TRUE, name |-> <<>>]

\* sha256(code.encode()).hexdigest(): a digest that names the code and nothing else
sha256(code) == <<"sha256(">> \o code \o <<")">>

\* lang_to_cmd: [ok |-> FALSE] is its ValueError
lang_to_cmd(lang) ==
    IF lang \in {"python", "Python", "py"} THEN [ok |-> TRUE, cmd |-> "python"]
    ELSE IF lang \in {"python3", "bash", "sh"} THEN [ok |-> TRUE, cmd |-> lang]
    ELSE IF lang = "shell" THEN [ok |-> TRUE, cmd |-> "sh"]
    ELSE [ok |-> FALSE, cmd |-> ""]

\* the timeout run_task gives the executor
timeout == 60

-----------------------------------------------------------------------------
(* The inputs of the model: code blocks, and what the container answers *)

B_a1  == [language |-> "Python", code |-> <<"# filename:", " ", "a.py", NL, "x=1">>]
B_a2  == [language |-> "python", code |-> <<"# filename:", " ", ".", "/", "a.py", NL, "print(x)">>]
B_pip == [language |-> "sh", code |-> <<"pip install", " ", "pandas">>]
B_esc == [language |-> "python", code |-> <<"# filename:", " ", "..", "/", "e.py", NL, "x=2">>]
B_rb  == [language |-> "ruby", code |-> <<"puts 1">>]
Blocks == {B_a1, B_a2, B_pip, B_esc, B_rb}

SeqsUpTo(S, n) == UNION {[1..m -> S] : m \in 0..n}

\* exec_run's answers: a clean exit, a failing exit, `timeout` killing the command
\* (it exits 124), and a clean exit whose output mentions COMPLETE
Outcomes ==
    { [exit_code |-> 0,   output |-> <<"4", NL>>,     timed_out |-> FALSE],
      [exit_code |-> 2,   output |-> <<"Traceback">>, timed_out |-> FALSE],
      [exit_code |-> 124, output |-> <<"...">>,       timed_out |-> TRUE],
      [exit_code |-> 0,   output |-> COMPLETE,        timed_out |-> FALSE] }

NoResult == [exit_code |-> -1, output |-> <<>>, code_file |-> <<>>]

-----------------------------------------------------------------------------
(* The files of work_dir *)

\* self._work_dir / filename, as a str
PathOf(filename) ==
    <<"/">> \o JoinWith([j \in 1..Len(work_dir) |-> <<work_dir[j]>>], "/")
            \o <<"/">> \o filename

\* a plausible slip: the path is looked up outside work_dir and never found
Exists_elsewhere(files_, path) == FALSE

Exists(files_, path) == \E f \in files_ : f.path = path
Read(files_, path) == (CHOOSE f \in files_ : f.path = path).content

\* open(path, "w").write(text)
WriteNew(files_, path, text) ==
    {f \in files_ : f.path # path} \cup {[path |-> path, content |-> text]}

\* open(path, "a").write(text)
WriteAppend(files_, path, text) ==
    {f \in files_ : f.path # path}
        \cup {[path |-> path,
               content |-> (IF Exists(files_, path) THEN Read(files_, path) ELSE <<>>) \o text]}

-----------------------------------------------------------------------------
(* AppendingDockerCodeExecutor._execute_code_dont_check_setup *)

\* a plausible slip: the filename comment is not checked against the workspace,
\* and a refused name falls through to the hash name
FileNameOf_unchecked(code_block) ==
    LET lang == lower(code_block.language)
        code == silence_pip(code_block.code, lang)
        r    == get_file_name_from_content(code, work_dir)
    IN IF r.name = <<>>
       THEN [ok |-> TRUE, name |-> <<"tmp_code_">> \o sha256(code) \o <<".", lang>>]
       ELSE r

\* the name the executor gives the file of a code block: [ok |-> FALSE] is the
\* ValueError of get_file_name_from_content
FileNameOf(code_block) ==
    LET lang == lower(code_block.language)
        code == silence_pip(code_block.code, lang)
        r    == get_file_name_from_content(code, work_dir)
    IN IF ~r.ok THEN r
       ELSE IF r.name = <<>>
            THEN [ok |-> TRUE, name |-> <<"tmp_code_">> \o sha256(code) \o <<".", lang>>]
            ELSE r

\* the text the executor writes for a code block
BodyOf(code_block) == silence_pip(code_block.code, lower(code_block.language))

\* the two, for each code block of the model
Named == [b \in Blocks |-> FileNameOf(b)]
Bodies == [b \in Blocks |-> BodyOf(b)]

\* a plausible slip: the file is opened with "w" whether it exists or not
StoreCode_truncate(files_, code_path, code) == WriteNew(files_, code_path, code)

\* lines 69-77: append to the file when it exists, create it otherwise
StoreCode(files_, code_path, code) ==
    IF Exists(files_, code_path)
    THEN WriteAppend(files_, code_path, <<NL>> \o code)
    ELSE WriteNew(files_, code_path, code)

\* a plausible slip: the timeout notice is left out
OutputOf_plain(answer) == answer.output

\* lines 84-88: the output kept for one exec_run answer
OutputOf(answer) ==
    IF answer.exit_code = 124 THEN answer.output \o <<NL, " Timeout">> ELSE answer.output

\* a plausible slip: the loop has no break on a failing exit code
GoesOn_always(exit_code) == TRUE

\* lines 91-92: the loop goes on after this exit code
GoesOn(exit_code) == exit_code = 0

\* a plausible slip: the loop is entered without the two checks
RunnerEnter_unchecked ==
    /\ rstate = "called"
    /\ rstate' = "loop"
    /\ outputs' = <<>>
    /\ files' = <<>>
    /\ last_exit_code' = 0
    /\ i' = 0
    /\ modes' = <<>>
    /\ cmds' = <<>>
    /\ UNCHANGED <<code_blocks, result, fs, running, dir_exists, driverVars>>

\* lines 42-50: the checks and the locals
RunnerEnter ==
    /\ rstate = "called"
    /\ IF ~running \/ Len(code_blocks) = 0
       THEN /\ rstate' = "raised"
            /\ UNCHANGED <<outputs, files, last_exit_code, i, modes, cmds>>
       ELSE /\ rstate' = "loop"
            /\ outputs' = <<>>
            /\ files' = <<>>
            /\ last_exit_code' = 0
            /\ i' = 0
            /\ modes' = <<>>
            /\ cmds' = <<>>
    /\ UNCHANGED <<code_blocks, result, fs, running, dir_exists, driverVars>>

\* lines 52-83: one turn of the loop, up to the await of exec_run
RunnerIter ==
    /\ rstate = "loop"
    /\ i < Len(code_blocks)
    /\ i' = i + 1
    /\ LET code_block == code_blocks[i + 1]
           lang == lower(code_block.language)
           code == Bodies[code_block]
           r    == Named[code_block]
           code_path == PathOf(r.name)
           cmd  == lang_to_cmd(lang)
       IN IF ~r.ok
          THEN /\ outputs' = Append(outputs, <<"Filename is not in the workspace">>)
               /\ last_exit_code' = 1
               /\ rstate' = "exit"
               /\ UNCHANGED <<fs, files, modes, cmds>>
          ELSE /\ fs' = StoreCode(fs, code_path, code)
               /\ modes' = Append(modes, IF Exists(fs, code_path) THEN "a" ELSE "w")
               /\ files' = Append(files, code_path)
               /\ IF ~cmd.ok
                  THEN /\ rstate' = "raised"
                       /\ UNCHANGED <<outputs, last_exit_code, cmds>>
                  ELSE /\ rstate' = "exec"
                       /\ UNCHANGED <<outputs, last_exit_code, cmds>>
    /\ UNCHANGED <<code_blocks, result, running, dir_exists, driverVars>>

\* lines 83-92: exec_run answers in its thread and the turn of the loop ends;
\* nothing here reads the cancellation_token
RunnerExecDone ==
    /\ rstate = "exec"
    /\ LET code_block == code_blocks[i]
           r   == Named[code_block]
           cmd == lang_to_cmd(lower(code_block.language))
       IN \E answer \in Outcomes :
          /\ cmds' = Append(cmds,
                 [command |-> [timeout |-> timeout, prog |-> cmd.cmd, file |-> r.name],
                  block |-> i, answer |-> answer])
          /\ outputs' = Append(outputs, OutputOf(answer))
          /\ last_exit_code' = answer.exit_code
          /\ rstate' = IF GoesOn(answer.exit_code) THEN "loop" ELSE "exit"
    /\ UNCHANGED <<code_blocks, result, files, i, modes, fs, running, dir_exists, driverVars>>

\* the caller of a direct call cancels the token it passed (line 39) while
\* exec_run is running; the token run_task creates at line 270 is held by
\* nobody else, so no such step exists during a run
Cancel ==
    /\ pc = "direct"
    /\ rstate = "exec"
    /\ cancelled = 0
    /\ cancelled' = i
    /\ UNCHANGED <<pc, task, history, speaker, message_count, stop_reason, error, reported,
                   running, dir_exists, fs, runnerVars>>

\* a plausible slip: the result names the last file written, not the first
ResultOf_last(outputs_, files_, exit_code) ==
    [exit_code |-> exit_code,
     output    |-> Join(outputs_),
     code_file |-> IF files_ # <<>> THEN Last(files_) ELSE <<>>]

\* lines 94-95
ResultOf(outputs_, files_, exit_code) ==
    [exit_code |-> exit_code,
     output    |-> Join(outputs_),
     code_file |-> IF files_ # <<>> THEN files_[1] ELSE <<>>]

RunnerReturn ==
    /\ \/ rstate = "exit"
       \/ rstate = "loop" /\ i = Len(code_blocks)
    /\ result' = ResultOf(outputs, files, last_exit_code)
    /\ rstate' = "returned"
    /\ UNCHANGED <<code_blocks, outputs, files, last_exit_code, i, modes, cmds,
                   fs, running, dir_exists, driverVars>>

-----------------------------------------------------------------------------
(* The executor called on its own, with any bounded list of code blocks *)

InitRunner ==
    /\ pc = "direct"
    /\ task = <<>>
    /\ history = <<>>
    /\ speaker = "none"
    /\ message_count = 0
    /\ stop_reason = {}
    /\ error = "none"
    /\ running \in BOOLEAN
    /\ dir_exists = TRUE
    /\ fs \in {{}, {[path |-> PathOf(<<"a.py">>), content |-> <<"old">>]}}
    /\ rstate = "called"
    /\ code_blocks \in SeqsUpTo(Blocks, MaxBlocks)
    /\ outputs = <<>>
    /\ files = <<>>
    /\ last_exit_code = 0
    /\ i = 0
    /\ modes = <<>>
    /\ cmds = <<>>
    /\ result = NoResult
    /\ cancelled = 0
    /\ reported = {}

NextRunner == RunnerEnter \/ RunnerIter \/ RunnerExecDone \/ Cancel \/ RunnerReturn

SpecRunner == InitRunner /\ [][NextRunner]_vars

-----------------------------------------------------------------------------
(* The conversation: SelectorGroupChat as create_team configures it *)

Msg(source, content, code) == [source |-> source, content |-> content, code |-> code]

\* what the model client may answer: the validator's flags, and replies with code
Replies ==
    { [content |-> SAFETY_VERIFIED,   code |-> <<>>],
      [content |-> COMPLETE,          code |-> <<>>],
      [content |-> <<"UNSAFE">>,      code |-> <<>>],
      [content |-> <<"Here it is">>,  code |-> <<B_a2, B_pip>>],
      [content |-> <<"Try this">>,    code |-> <<B_esc>>],
      [content |-> <<"In ruby">>,     code |-> <<B_rb>>] }

\* the messages a task is made of
SeedMsgs ==
    { Msg("user", <<"Calculate">>, <<>>),
      Msg(safeguard_agent, SAFETY_VERIFIED, <<B_a1, B_pip>>) }

\* a plausible slip: the phrase counts in the writer's messages only
text_termination_writer(delta) ==
    \E k \in 1..Len(delta) :
        delta[k].source = writer_agent /\ Contains(COMPLETE, delta[k].content)

\* a plausible slip: only the newest of the messages is looked at
text_termination_last(delta) ==
    delta # <<>> /\ Contains(COMPLETE, Last(delta).content)

\* TextMentionTermination("COMPLETE") on the messages just added
text_termination(delta) ==
    \E k \in 1..Len(delta) : Contains(COMPLETE, delta[k].content)

\* a plausible slip: the cap is compared with > instead of >=
max_termination_late(count) == count > max_messages

\* MaxMessageTermination(5) once it has counted `count` messages
max_termination(count) == count >= max_messages

\* a plausible slip: the cap is not looked at once the phrase is found
Fired_short(delta, count) ==
    IF text_termination(delta) THEN {"text"}
    ELSE IF max_termination(count + Len(delta)) THEN {"max"} ELSE {}

\* text_termination | max_termination on the messages just added: the conditions that fire
Fired(delta, count) ==
    (IF text_termination(delta) THEN {"text"} ELSE {})
        \cup (IF max_termination(count + Len(delta)) THEN {"max"} ELSE {})

\* a plausible slip: the thread is assigned the new messages instead of extended
Deliver_lastOnly(delta) ==
    /\ history' = delta
    /\ message_count' = message_count + Len(delta)
    /\ stop_reason' = Fired(delta, message_count)
    /\ pc' = IF Fired(delta, message_count) # {} THEN "result" ELSE "loop"

\* the thread takes the new messages and the termination condition sees them
Deliver(delta) ==
    /\ history' = history \o delta
    /\ message_count' = message_count + Len(delta)
    /\ stop_reason' = Fired(delta, message_count)
    /\ pc' = IF Fired(delta, message_count) # {} THEN "result" ELSE "loop"

RECURSIVE CodeSince(_)
\* the code blocks of the messages the executor has not yet answered
CodeSince(thread) ==
    IF thread = <<>> \/ Last(thread).source = executor_agent THEN <<>>
    ELSE CodeSince(SubSeq(thread, 1, Len(thread) - 1)) \o Last(thread).code

-----------------------------------------------------------------------------
(* run_task *)

\* lines 236-265: the client and the executor are built; the executor makes work_dir
Construct ==
    /\ pc = "begin"
    /\ dir_exists' = TRUE
    /\ pc' = "enter"
    /\ UNCHANGED <<task, cancelled, reported, history, speaker, message_count, stop_reason, error,
                   running, fs, runnerVars>>

\* line 267: entering the executor's context starts the container, or fails to
StartContainer ==
    /\ pc = "enter"
    /\ \/ /\ running' = TRUE
          /\ pc' = "run"
          /\ error' = error
       \/ /\ error' = "start"
          /\ pc' = "finally"
          /\ running' = running
    /\ UNCHANGED <<task, cancelled, reported, history, speaker, message_count, stop_reason,
                   dir_exists, fs, runnerVars>>

\* lines 268-270: the team is made and run_stream takes the task
StartRun ==
    /\ pc = "run"
    /\ Deliver(task)
    /\ UNCHANGED <<task, cancelled, reported, speaker, error, running, dir_exists, fs, runnerVars>>

\* a turn of the writer or of the safeguard: the model client answers
AgentTurn ==
    /\ pc = "loop"
    /\ selector_func(history) \in {writer_agent, safeguard_agent}
    /\ speaker' = selector_func(history)
    /\ \E reply \in Replies :
          Deliver(<<Msg(selector_func(history), reply.content, reply.code)>>)
    /\ UNCHANGED <<task, cancelled, reported, error, running, dir_exists, fs, runnerVars>>

\* a turn of the writer or of the safeguard: the model client gives up
InferenceFails ==
    /\ pc = "loop"
    /\ selector_func(history) \in {writer_agent, safeguard_agent}
    /\ speaker' = selector_func(history)
    /\ error' = "inference"
    /\ pc' = "exit"
    /\ UNCHANGED <<task, cancelled, reported, history, message_count, stop_reason, running, dir_exists,
                   fs, runnerVars>>

\* a turn of the executor: it calls execute_code_blocks, or finds no code
ExecutorTurn ==
    /\ pc = "loop"
    /\ selector_func(history) = executor_agent
    /\ speaker' = executor_agent
    /\ code_blocks' = CodeSince(history)
    /\ result' = NoResult
    /\ outputs' = <<>>
    /\ files' = <<>>
    /\ last_exit_code' = 0
    /\ i' = 0
    /\ modes' = <<>>
    /\ cmds' = <<>>
    /\ IF CodeSince(history) = <<>>
       THEN /\ Deliver(<<Msg(executor_agent, <<"No code blocks found in the thread.">>, <<>>)>>)
            /\ rstate' = rstate
       ELSE /\ rstate' = "called"
            /\ pc' = "await"
            /\ UNCHANGED <<history, message_count, stop_reason>>
    /\ UNCHANGED <<task, cancelled, reported, error, running, dir_exists, fs>>

\* the executor's answer becomes its message
ExecutorReply ==
    /\ pc = "await"
    /\ rstate = "returned"
    /\ Deliver(<<Msg(executor_agent, result.output, <<>>)>>)
    /\ rstate' = "idle"
    /\ UNCHANGED <<task, cancelled, reported, speaker, error, running, dir_exists, fs, code_blocks, outputs,
                   files, last_exit_code, i, modes, cmds, result>>

\* an exception of the executor leaves the run
ExecutorRaises ==
    /\ pc = "await"
    /\ rstate = "raised"
    /\ error' = "runner"
    /\ pc' = "exit"
    /\ rstate' = "idle"
    /\ UNCHANGED <<task, cancelled, reported, history, speaker, message_count, stop_reason, running,
                   dir_exists, fs, code_blocks, outputs, files, last_exit_code, i,
                   modes, cmds, result>>

\* lines 273-274: the TaskResult with its stop reason is printed
YieldResult ==
    /\ pc = "result"
    /\ pc' = "exit"
    /\ reported' = stop_reason
    /\ UNCHANGED <<task, cancelled, history, speaker, message_count, stop_reason, error,
                   running, dir_exists, fs, runnerVars>>

\* leaving the executor's context stops the container, or fails to
StopContainer ==
    /\ pc = "exit"
    /\ pc' = "finally"
    /\ \/ /\ running' = FALSE
          /\ error' = error
       \/ /\ running' = running
          /\ error' = "stop"
    /\ UNCHANGED <<task, cancelled, reported, history, speaker, message_count, stop_reason,
                   dir_exists, fs, runnerVars>>

\* line 277: shutil.rmtree(work_dir)
RemoveTree(exists) == FALSE

\* a plausible slip: the removal sits at the end of the try body, not in finally
Cleanup_onSuccess ==
    /\ pc = "finally"
    /\ dir_exists' = IF error = "none" THEN RemoveTree(dir_exists) ELSE dir_exists
    /\ fs' = IF error = "none" THEN {} ELSE fs
    /\ pc' = "done"
    /\ UNCHANGED <<task, cancelled, reported, history, speaker, message_count, stop_reason, error,
                   running, runnerVars>>

\* lines 276-278
Cleanup ==
    /\ pc = "finally"
    /\ dir_exists' = RemoveTree(dir_exists)
    /\ fs' = {}
    /\ pc' = "done"
    /\ UNCHANGED <<task, cancelled, reported, history, speaker, message_count, stop_reason, error,
                   running, runnerVars>>

Seeds == SeqsUpTo(SeedMsgs, MaxSeed) \ {<<>>}

Init ==
    /\ pc = "begin"
    /\ task \in Seeds
    /\ history = <<>>
    /\ speaker = "none"
    /\ message_count = 0
    /\ stop_reason = {}
    /\ error = "none"
    /\ running = FALSE
    /\ dir_exists \in BOOLEAN
    /\ fs = {}
    /\ rstate = "idle"
    /\ code_blocks = <<>>
    /\ outputs = <<>>
    /\ files = <<>>
    /\ last_exit_code = 0
    /\ i = 0
    /\ modes = <<>>
    /\ cmds = <<>>
    /\ result = NoResult
    /\ cancelled = 0
    /\ reported = {}

Next ==
    \/ Construct
    \/ StartContainer
    \/ StartRun
    \/ AgentTurn
    \/ InferenceFails
    \/ ExecutorTurn
    \/ RunnerEnter
    \/ RunnerIter
    \/ RunnerExecDone
    \/ RunnerReturn
    \/ ExecutorReply
    \/ ExecutorRaises
    \/ YieldResult
    \/ StopContainer
    \/ Cleanup

Spec == Init /\ [][Next]_vars

\* the event loop runs run_task on: every await of the model returns
LiveSpec == Spec /\ WF_vars(Next)

-----------------------------------------------------------------------------
(* The selector called on its own, with any bounded conversation *)

Sources == {"user", writer_agent, safeguard_agent, executor_agent}

Contents ==
    { SAFETY_VERIFIED,
      <<"safety", " ", "verified">>,
      <<"SAFETY", "VERIFIED">>,
      <<"UNSAFE", ":", "not", " ">> \o SAFETY_VERIFIED \o <<".">>,
      COMPLETE }

AnyMsgs == {Msg(s, c, <<>>) : s \in Sources, c \in Contents}

InitSelect ==
    /\ pc = "call"
    /\ task = <<>>
    /\ history \in SeqsUpTo(AnyMsgs, MaxConv)
    /\ speaker = "none"
    /\ message_count = 0
    /\ stop_reason = {}
    /\ error = "none"
    /\ running = FALSE
    /\ dir_exists = FALSE
    /\ fs = {}
    /\ rstate = "idle"
    /\ code_blocks = <<>>
    /\ outputs = <<>>
    /\ files = <<>>
    /\ last_exit_code = 0
    /\ i = 0
    /\ modes = <<>>
    /\ cmds = <<>>
    /\ result = NoResult
    /\ cancelled = 0
    /\ reported = {}

\* selector_func(conversation) returns
CallSelector ==
    /\ pc = "call"
    /\ speaker' = selector_func(history)
    /\ pc' = "selected"
    /\ UNCHANGED <<task, cancelled, reported, history, message_count, stop_reason, error, running,
                   dir_exists, fs, runnerVars>>

NextSelect == CallSelector

SpecSelect == InitSelect /\ [][NextSelect]_vars

-----------------------------------------------------------------------------
(* C1: for every non-empty conversation whose last message comes from the   *)
(* writer, whatever its content and whatever precedes it, the selector      *)
(* returns the safeguard.                                                   *)
C1_WriterThenSafeguard ==
    (pc = "selected" /\ history # <<>> /\ Last(history).source = writer_agent)
        => speaker = safeguard_agent

\* a verified safeguard message followed by a writer message that repeats the marker
C1_Witness ==
    /\ pc = "selected"
    /\ Len(history) = 2
    /\ history[1].source = safeguard_agent
    /\ Contains(SAFETY_VERIFIED, history[1].content)
    /\ history[2].source = writer_agent
    /\ Contains(SAFETY_VERIFIED, history[2].content)
    /\ speaker = safeguard_agent

(* C2: for every conversation whose last message comes from the safeguard,  *)
(* the selector returns the executor when that message contains the exact   *)
(* phrase SAFETY VERIFIED and the writer when it does not; the messages     *)
(* before it have no say.                                                   *)
C2_SafeguardRouting ==
    (pc = "selected" /\ history # <<>> /\ Last(history).source = safeguard_agent)
        => speaker = IF Contains(SAFETY_VERIFIED, Last(history).content)
                     THEN executor_agent ELSE writer_agent

\* an earlier verified message, then a safeguard message in lower case: the writer
C2_Witness ==
    /\ pc = "selected"
    /\ Len(history) = 2
    /\ history[1].source = safeguard_agent
    /\ history[1].content = SAFETY_VERIFIED
    /\ history[2].source = safeguard_agent
    /\ history[2].content = <<"safety", " ", "verified">>
    /\ speaker = writer_agent

-----------------------------------------------------------------------------
\* the messages the conversation has added to the task
Appended == Len(history) - Len(task)

\* the termination condition has fired and the run has stopped on it
Stopped == pc \in {"result", "exit", "finally", "done"} /\ stop_reason # {}

(* C3: in a run, the role selected for a turn is never the role that wrote  *)
(* the message just before it: no message the conversation adds has the     *)
(* source of the message it follows.                                        *)
C3_NoRepeatedSpeaker ==
    /\ \A k \in 1..(Len(history) - 1) :
          k + 1 > Len(task) => history[k + 1].source # history[k].source
    /\ (pc = "await" /\ history # <<>>) => speaker # Last(history).source

\* a task ending in a safeguard message, answered by the executor and then the writer
C3_Witness ==
    /\ Len(task) = 2
    /\ task[2].source = safeguard_agent
    /\ Appended = 3
    /\ history[3].source = executor_agent
    /\ history[4].source = writer_agent
    /\ history[5].source = safeguard_agent

(* C4, as amended: with the condition COMPLETE-mentioned OR                 *)
(* at-least-max_messages, every run ends; when it stops on the condition    *)
(* the thread holds at most max_messages messages, or, when the task alone  *)
(* already has that many or more, exactly the task (no turn is taken).      *)
C4_TerminatesWithinCap ==
    /\ <>(pc = "done")
    /\ [](Stopped => \/ Len(history) <= max_messages
                     \/ history = task /\ Len(task) > max_messages)

\* a run that never mentions COMPLETE and stops on the cap, four turns after a one-message task
C4_Witness ==
    /\ pc = "done"
    /\ error = "none"
    /\ stop_reason = {"max"}
    /\ Len(task) = 1
    /\ Len(history) = max_messages
    /\ \A k \in 1..Len(history) : ~Contains(COMPLETE, history[k].content)

(* C4 as stated: a run without failure ends with at most max_messages       *)
(* messages in the thread.                                                  *)
C4_Original ==
    (pc = "done" /\ error = "none") => Len(history) <= max_messages

-----------------------------------------------------------------------------
\* the text kept for a code block whose filename is refused
NotInWorkspace == <<"Filename is not in the workspace">>

\* the loop has ended, by a break or by running out of code blocks
LoopOver == rstate \in {"exit", "returned"}

(* C5: fail-fast. When block k is the first whose command exits nonzero,    *)
(* exactly blocks 1..k were written and run, in order, nothing after k is   *)
(* written or run, the result's exit code is that of block k and its output *)
(* is the outputs of blocks 1..k and nothing else.                          *)
C5_FailFast ==
    /\ \A j \in 1..Len(cmds) : cmds[j].block = j
    /\ \A j \in 1..(Len(cmds) - 1) : cmds[j].answer.exit_code = 0
    /\ \A k \in 1..Len(cmds) :
          cmds[k].answer.exit_code # 0 =>
             /\ LoopOver
             /\ i = k
             /\ Len(files) = k
             /\ \A m \in 1..k :
                   /\ FileNameOf(code_blocks[m]).ok
                   /\ files[m] = PathOf(FileNameOf(code_blocks[m]).name)
                   /\ Exists(fs, files[m])
                   /\ cmds[m].command.file = FileNameOf(code_blocks[m]).name
             /\ rstate = "returned" =>
                   /\ result.exit_code = cmds[k].answer.exit_code
                   /\ result.output = Join([m \in 1..k |-> outputs[m]])
                   /\ \A m \in 1..k : IsPrefix(cmds[m].answer.output, outputs[m])

\* three blocks: the first exits 0, the second exits 2, the third is never reached
C5_Witness ==
    /\ rstate = "returned"
    /\ Len(code_blocks) = 3
    /\ Len(cmds) = 2
    /\ cmds[1].answer.exit_code = 0
    /\ cmds[2].answer.exit_code = 2
    /\ result.exit_code = 2
    /\ Len(files) = 2

(* C6: a block whose command runs into the timeout gives the exit code 124  *)
(* to the call, its output ends with the timeout notice, and no later block *)
(* of the call is written or run.                                           *)
C6_Timeout ==
    \A k \in 1..Len(cmds) :
       cmds[k].answer.timed_out =>
          /\ LoopOver
          /\ k = Len(cmds)
          /\ i = k
          /\ Len(files) = k
          /\ last_exit_code = 124
          /\ outputs[k] = cmds[k].answer.output \o <<NL, " Timeout">>
          /\ rstate = "returned" =>
                /\ result.exit_code = 124
                /\ result.output = Join(SubSeq(outputs, 1, k - 1)) \o outputs[k]

\* the first of two blocks times out
C6_Witness ==
    /\ rstate = "returned"
    /\ Len(code_blocks) = 2
    /\ Len(cmds) = 1
    /\ cmds[1].answer.timed_out
    /\ result.exit_code = 124

(* C7: append semantics. When two blocks taken one after the other resolve  *)
(* to the same path and the first created the file, the file holds, after   *)
(* the second write, the first body, one newline, the second body.          *)
C7_Append ==
    \A k \in 1..(Len(files) - 1) :
       (k + 1 = Len(files) /\ modes[k] = "w" /\ files[k] = files[k + 1]) =>
          /\ Exists(fs, files[k])
          /\ Read(fs, files[k]) =
                BodyOf(code_blocks[k]) \o <<NL>> \o BodyOf(code_blocks[k + 1])

\* a.py is created by the first block and reached as ./a.py by the second
C7_Witness ==
    /\ Len(files) = 2
    /\ modes = <<"w", "a">>
    /\ files[1] = files[2]
    /\ code_blocks[1] = B_a1
    /\ code_blocks[2] = B_a2
    /\ rstate = "returned"

\* the exit code block k was given: that of its command, or 1 for a refused filename
ExitOf(k) == IF k <= Len(cmds) THEN cmds[k].answer.exit_code ELSE 1

(* C8: the result of a call that takes at least one block has the exit code *)
(* of the last block taken, which is 0 exactly when every block was taken   *)
(* and exited 0; the outputs of the blocks taken, concatenated in order;    *)
(* and the path resolved for the first block, or none when none was.        *)
C8_Result ==
    rstate = "returned" =>
       /\ i >= 1
       /\ result.exit_code = ExitOf(i)
       /\ result.exit_code = 0 <=>
             /\ i = Len(code_blocks)
             /\ \A k \in 1..Len(code_blocks) : k <= Len(cmds) /\ ExitOf(k) = 0
       /\ result.output =
             Join([k \in 1..i |-> IF k <= Len(cmds)
                                  THEN outputs[k] ELSE NotInWorkspace])
       /\ \A k \in 1..Len(cmds) : IsPrefix(cmds[k].answer.output, outputs[k])
       /\ result.code_file =
             IF FileNameOf(code_blocks[1]).ok
             THEN PathOf(FileNameOf(code_blocks[1]).name) ELSE <<>>

\* two blocks in two files, the second failing: the result names the first file
C8_Witness ==
    /\ rstate = "returned"
    /\ Len(files) = 2
    /\ files[1] # files[2]
    /\ result.code_file = files[1]
    /\ result.exit_code = 2
    /\ Len(code_blocks) = 3

-----------------------------------------------------------------------------
\* the filename comment of the block leaves the workspace
Escapes(code_block) == ~get_file_name_from_content(BodyOf(code_block), work_dir).ok

IsSuffix(p, s) == Len(p) <= Len(s) /\ SubSeq(s, Len(s) - Len(p) + 1, Len(s)) = p

(* C9: a failure of one block does not abort the run. A refused filename, a *)
(* failing exit and a timeout give a result, not an exception, with a       *)
(* nonzero exit code and the failure's text as output; no file is written   *)
(* for a block with a refused filename; the executor's message joins the    *)
(* thread; and the writer is selected next unless the run stops.            *)
C9_FailuresRecoverable ==
    /\ (rstate = "raised" \/ error = "runner") =>
          i >= 1 /\ ~lang_to_cmd(lower(code_blocks[i].language)).ok
    /\ \A k \in 1..i :
          Escapes(code_blocks[k]) =>
             /\ k = i
             /\ Len(files) = k - 1
             /\ Len(cmds) = k - 1
             /\ rstate \in {"exit", "returned", "idle"}
             /\ last_exit_code = 1
             /\ Last(outputs) = NotInWorkspace
    /\ \A f \in fs : IsPrefix(PathOf(<<>>), f.path) /\ \A k \in 1..Len(f.path) : f.path[k] # ".."
    /\ (rstate \in {"returned", "idle"} /\ result # NoResult /\ ExitOf(i) # 0) =>
          /\ result.exit_code # 0
          /\ IF i > Len(cmds) THEN IsSuffix(NotInWorkspace, result.output)
             ELSE IsSuffix(OutputOf(Last(cmds).answer), result.output)
    /\ (rstate = "idle" /\ result # NoResult /\ speaker = executor_agent
          /\ pc \in {"loop", "result"}) =>
          Last(history) = Msg(executor_agent, result.output, <<>>)
    /\ (history # <<>> /\ Last(history).source = executor_agent) =>
          \/ Stopped
          \/ pc = "loop" /\ selector_func(history) = writer_agent
          \/ error \in {"inference", "stop"} /\ speaker = writer_agent

\* a refused filename became the executor's message and the conversation goes on
C9_Witness ==
    /\ pc = "loop"
    /\ Last(history) = Msg(executor_agent, NotInWorkspace, <<>>)
    /\ result.exit_code = 1
    /\ Escapes(code_blocks[i])
    /\ fs = {}
    /\ selector_func(history) = writer_agent

(* C10: work_dir is removed at the end of every run, on every way out: a    *)
(* stop on the termination condition, a failure of the model client, a      *)
(* container that does not start or stop, an exception of the executor.     *)
C10_WorkDirRemoved ==
    /\ <>(pc = "done" /\ ~dir_exists)
    /\ [](pc = "done" => ~dir_exists /\ fs = {})

\* the executor raised after writing a file, and the directory is gone
C10_Witness ==
    /\ pc = "done"
    /\ error = "runner"
    /\ files # <<>>
    /\ ~dir_exists
    /\ fs = {}

-----------------------------------------------------------------------------
(* Cancellation *)

\* C11: once the token is cancelled while the command of a code block runs,
\* that execution ends as a timeout does: exit code 124, the output ends with
\* the notice, and no later code block is taken
C11_CancelAborts ==
    cancelled > 0 /\ rstate # "exec" =>
        /\ LoopOver
        /\ i = cancelled
        /\ last_exit_code = 124
        /\ IsSuffix(<<NL, " Timeout">>, Last(outputs))

-----------------------------------------------------------------------------
(* The thread *)

(* C12: the thread is append-only. A step of the run leaves it alone, or    *)
(* starts it with the task's messages, or adds exactly one message, written *)
(* by one of the three participants, after the messages it held; once the   *)
(* termination condition has fired no message is added.                     *)
C12_AppendOnly ==
    [][ /\ \/ history' = history
           \/ history = <<>> /\ history' = task
           \/ /\ Len(history') = Len(history) + 1
              /\ SubSeq(history', 1, Len(history)) = history
              /\ Last(history').source \in participants
        /\ stop_reason # {} => history' = history ]_vars

C12_Witness == Stopped /\ Appended = 4 /\ Len(task) = 1

-----------------------------------------------------------------------------
(* The termination condition applied on its own to a thread and to the      *)
(* threads that extend it: a fresh text_termination | max_termination is    *)
(* handed the whole thread, as a team is handed its task                    *)

\* longest thread the termination condition is applied to on its own
MaxThread == 6

StopMsgs ==
    { Msg("user", <<"Calculate">>, <<>>),
      Msg(writer_agent, COMPLETE, <<>>),
      Msg(executor_agent, <<"4", NL, "COMPLETE", NL>>, <<>>) }

InitStop ==
    /\ pc = "condition"
    /\ task = <<>>
    /\ history \in SeqsUpTo(StopMsgs, 1)
    /\ speaker = "none"
    /\ message_count = Len(history)
    /\ stop_reason = Fired(history, 0)
    /\ error = "none"
    /\ running = FALSE
    /\ dir_exists = FALSE
    /\ fs = {}
    /\ rstate = "idle"
    /\ code_blocks = <<>>
    /\ outputs = <<>>
    /\ files = <<>>
    /\ last_exit_code = 0
    /\ i = 0
    /\ modes = <<>>
    /\ cmds = <<>>
    /\ result = NoResult
    /\ cancelled = 0
    /\ reported = {}

\* the thread gets one more message and the condition is applied to all of it
ExtendThread ==
    /\ pc = "condition"
    /\ Len(history) < MaxThread
    /\ \E m \in StopMsgs :
          /\ history' = Append(history, m)
          /\ message_count' = Len(history) + 1
          /\ stop_reason' = Fired(Append(history, m), 0)
    /\ UNCHANGED <<pc, task, cancelled, reported, speaker, error, running, dir_exists, fs,
                   runnerVars>>

NextStop == ExtendThread

SpecStop == InitStop /\ [][NextStop]_vars

(* C13: the termination condition is monotonic. When text_termination |     *)
(* max_termination holds of a thread, it holds of the thread with one more  *)
(* message, hence of every thread that extends it.                          *)
C13_Monotonic == [][stop_reason # {} => stop_reason' # {}]_vars

\* the phrase came first, the cap is not reached, and the newest message lacks the phrase
C13_Witness ==
    /\ pc = "condition"
    /\ Len(history) = 3
    /\ Contains(COMPLETE, history[1].content)
    /\ ~Contains(COMPLETE, history[3].content)
    /\ stop_reason = {"text"}

-----------------------------------------------------------------------------
(* Hash-named files *)

\* the code block carries no filename comment: its file is named by the hash
NoDirective(code_block) ==
    LET r == get_file_name_from_content(BodyOf(code_block), work_dir)
    IN r.ok /\ r.name = <<>>

RECURSIVE Copies(_, _)
\* how many times `content` holds `body`, one copy per line group; 0 when it
\* is not made of copies of body
Copies(content, body) ==
    IF content = body THEN 1
    ELSE IF IsPrefix(body \o <<NL>>, content)
         THEN LET n == Copies(SubSeq(content, Len(body) + 2, Len(content)), body)
              IN IF n = 0 THEN 0 ELSE n + 1
         ELSE 0

(* C14: the path of a code block without a filename comment depends on its  *)
(* body and language only. When the executor writes such a block and the    *)
(* run has written a block of the same body and language before, in this    *)
(* call or in an earlier one, the write appends to the one file made of     *)
(* copies of that body and no file is created; otherwise it creates the     *)
(* file, holding the body.                                                  *)
C14_SamePath ==
    [][ (Len(files') = Len(files) + 1 /\ NoDirective(code_blocks[Len(files')])) =>
            LET body   == Bodies[code_blocks[Len(files')]]
                before == {f \in fs : Copies(f.content, body) > 0}
            IN IF before = {}
               THEN /\ Last(modes') = "w"
                    /\ fs' = fs \cup {[path |-> Last(files'), content |-> body]}
                    /\ Cardinality(fs') = Cardinality(fs) + 1
               ELSE \E f \in before :
                    /\ before = {f}
                    /\ Last(files') = f.path
                    /\ Last(modes') = "a"
                    /\ fs' = (fs \ {f}) \cup
                             {[path |-> f.path, content |-> f.content \o <<NL>> \o body]} ]_vars

\* the second call of the executor in a run takes a block the first call took
C14_Witness ==
    /\ pc = "await"
    /\ \E k \in 1..Len(history) : history[k].source = executor_agent
    /\ code_blocks = <<B_a2, B_pip>>
    /\ modes = <<"a", "a">>
    /\ Copies(Read(fs, files[2]), Bodies[B_pip]) = 2

-----------------------------------------------------------------------------
(* The stop reason *)

\* the messages the termination condition saw last hold the phrase
TextSeen ==
    IF Appended = 0 THEN text_termination(task)
    ELSE Contains(COMPLETE, Last(history).content)

\* C15 as stated: however the run ends, it has printed a stop reason
C15_Original == pc = "done" => reported # {}

(* C15: a run prints a stop reason exactly when it stops on its termination *)
(* condition, and the reason names the conditions that fired: the phrase,   *)
(* the cap, or both. A run ended by the container failing to start, by the  *)
(* model client or by the executor raising has printed none.                *)
C15_StopReason ==
    pc = "done" =>
        /\ reported = stop_reason
        /\ error = "none" => reported # {}
        /\ error \in {"start", "inference", "runner"} => reported = {}
        /\ reported # {} =>
              /\ "max" \in reported <=> Len(history) >= max_messages
              /\ "text" \in reported <=> TextSeen

C15_Witness ==
    /\ pc = "done"
    /\ error = "none"
    /\ Appended > 0
    /\ reported = {"text", "max"}

-----------------------------------------------------------------------------
(* The executor's preconditions *)

-----------------------------------------------------------------------------
(* The selector as a function *)

(* C17: the selector is total and looks at the last message only. For every *)
(* conversation it returns one of the three participants: the writer for    *)
(* the empty conversation, after a message of the executor and after a      *)
(* message whose source is no participant; and what it returns for a        *)
(* conversation is what it returns for its last message alone.              *)
C17_TotalSelector ==
    pc = "selected" =>
        /\ speaker \in participants
        /\ history = <<>> => speaker = writer_agent
        /\ history # <<>> =>
              /\ Last(history).source = executor_agent => speaker = writer_agent
              /\ Last(history).source \notin participants => speaker = writer_agent
              /\ speaker = selector_func(<<Last(history)>>)

\* a verified safeguard message, then a message of the user: the writer
C17_Witness ==
    /\ pc = "selected"
    /\ Len(history) = 2
    /\ history[1].source = safeguard_agent
    /\ history[1].content = SAFETY_VERIFIED
    /\ history[2].source = "user"
    /\ history[2].content = SAFETY_VERIFIED
    /\ speaker = writer_agent

-----------------------------------------------------------------------------
(* Stopping before the cap *)

-----------------------------------------------------------------------------
(* The gate before the executor *)

(* C19: no code runs without the safeguard's approval. Every message of the *)
(* executor that the run adds comes right after a message of the safeguard  *)
(* that contains SAFETY VERIFIED; after a message of the safeguard without  *)
(* the phrase no turn of the executor is started and no message of the      *)
(* executor is added.                                                       *)
C19_Gate ==
    /\ \A k \in (Len(task) + 1)..Len(history) :
          history[k].source = executor_agent =>
              /\ k > 1
              /\ history[k - 1].source = safeguard_agent
              /\ Contains(SAFETY_VERIFIED, history[k - 1].content)
    /\ \A k \in 1..Len(history) :
          (history[k].source = safeguard_agent
              /\ ~Contains(SAFETY_VERIFIED, history[k].content)) =>
              /\ (k < Len(history) /\ k >= Len(task)) =>
                     history[k + 1].source # executor_agent
              /\ k = Len(history) => (pc # "await" /\ speaker # executor_agent)

\* the safeguard approves once and the code runs, then it answers UNSAFE and
\* the writer is next
C19_Witness ==
    /\ pc = "loop"
    /\ Len(history) = 4
    /\ Contains(SAFETY_VERIFIED, history[1].content)
    /\ history[2].source = executor_agent
    /\ history[3].source = writer_agent
    /\ history[3].code # <<>>
    /\ history[4] = Msg(safeguard_agent, <<"UNSAFE">>, <<>>)
    /\ selector_func(history) = writer_agent

-----------------------------------------------------------------------------
(* The files of a run *)

(* C20: until work_dir is removed the files of a run only grow. No step     *)
(* before the cleanup deletes or shortens a file: what a file held is a     *)
(* prefix of what it holds after the step. The file a command is run on is  *)
(* the one just written, and from the write on it ends with the body of the *)
(* code block just written, after whatever it held before.                  *)
C20_Accumulate ==
    /\ [][ pc' # "done" =>
              \A f \in fs : \E g \in fs' :
                  g.path = f.path /\ IsPrefix(f.content, g.content) ]_vars
    /\ [](\A k \in 1..Len(cmds) : PathOf(cmds[k].command.file) = files[k])
    /\ []((pc # "done" /\ i >= 1 /\ Len(files) = i) =>
              /\ Exists(fs, files[i])
              /\ IsSuffix(Bodies[code_blocks[i]], Read(fs, files[i])))

\* the command of a block is running on a file that an earlier call created
\* with another body
C20_Witness ==
    /\ pc = "await"
    /\ rstate = "exec"
    /\ \E k \in 1..Len(history) : history[k].source = executor_agent
    /\ i = 1
    /\ code_blocks[1] = B_a2
    /\ modes = <<"a">>
    /\ Read(fs, files[1]) = Bodies[B_a1] \o <<NL>> \o Bodies[B_a2]

====
